---- MODULE Spec2Model ----
(***************************************************************************)
(* WsClient (src/unnamed/part_000): a WebSocket connection manager with    *)
(* reconnect and exponential backoff, a heartbeat, publish/subscribe       *)
(* dispatch of inbound frames and send-with-acknowledgement.               *)
(*                                                                         *)
(* The manager's fields are variables.  The browser side (the WebSocket    *)
(* objects, the setTimeout/setInterval timers, the promises returned by    *)
(* send) is modelled next to them.  Each method and each event listener is *)
(* an operator from a world record to a world record, so that a listener   *)
(* runs to completion as one step, as it does on the JavaScript event loop.*)
(***************************************************************************)
EXTENDS Integers, Sequences, FiniteSets, TLC

\* ------------------------------------------------------------------ bounds
\* connection attempts in flight at once: WebSocket objects that have not
\* delivered their close event, plus pending reconnect timers
MaxAttempts == 2
\* request ids allocated by send
MaxReq == 2

VARIABLES
    ws,                 \* this.ws: 0 is null, otherwise a socket
    _listeners,         \* eventType -> Set(callback), in insertion order
    _anyListeners,      \* Set(callback), in insertion order
    _nextRequestId,
    _pendingAcks,       \* keys of the Map request_id -> resolver
    _reconnectDelay,
    _maxReconnectDelay,
    _backoffFactor,
    _heartbeatTimer,    \* 0 is null, 1 is the handle of an interval
    _shouldReconnect,
    sockets,            \* readyState of every WebSocket object
    newest,             \* the socket created last, 0 once it has closed
    reconnectTimers,    \* delays of the pending setTimeout(_connectOnce)
    intervals,          \* number of armed setInterval timers
    ackTimers,          \* request ids whose "Ack timeout" timer is armed
    promises,           \* request id -> the resolve/reject calls made on its promise
    calls,              \* callback invocations of the last step, in order
    wire,               \* frames handed to WebSocket.send in the last step
    sendResult,         \* what the last send() returned
    baseDelay,          \* history: the configured base delay
    expected,           \* history: the delay the backoff rule gives the next attempt
    suppressed          \* history: disconnect() came while a reconnect was scheduled

vars == <<ws, _listeners, _anyListeners, _nextRequestId, _pendingAcks, _reconnectDelay,
          _maxReconnectDelay, _backoffFactor, _heartbeatTimer, _shouldReconnect,
          sockets, newest, reconnectTimers, intervals, ackTimers, promises,
          calls, wire, sendResult, baseDelay, expected, suppressed>>

\* ------------------------------------------------------- JavaScript numbers
\* Delays and the backoff factor are exact fractions n/d (the default factor
\* is 1.6), kept in lowest terms.
RECURSIVE GCD(_, _)
GCD(a, b) == IF b = 0 THEN a ELSE GCD(b, a % b)

Frac(n, d) == LET g == GCD(n, d) IN [n |-> n \div g, d |-> d \div g]

Num(i) == [n |-> i, d |-> 1]

Times(a, b) == Frac(a.n * b.n, a.d * b.d)

Leq(a, b) == a.n * b.d <= b.n * a.d

MathMin(a, b) == IF Leq(a, b) THEN a ELSE b

\* opts.x || dflt: an absent option (written as 0) is falsy
OrDefault(v, dflt) == IF v.n = 0 THEN dflt ELSE v

\* -------------------------------------------------------- JavaScript values
\* A value handed to a callback: undefined, a string or payload (by name), or
\* a decoded frame.
NoFrame == [type |-> "undefined", payload |-> "undefined", request_id |-> "undefined"]

Undefined == [t |-> "undefined"]

Str(x) == IF x = "undefined" THEN Undefined ELSE [t |-> "value", v |-> x]

Obj(fr) == [t |-> "object", v |-> fr]

\* String(n) for the request ids
Decimal == <<"1", "2", "3", "4", "5", "6", "7", "8", "9">>

String(n) == Decimal[n]

Range(s) == {s[i] : i \in 1..Len(s)}

\* Set.prototype.add / delete on a Set kept in insertion order
SetAdd(s, x) == IF x \in Range(s) THEN s ELSE Append(s, x)

SetDelete(s, x) == SelectSeq(s, LAMBDA y : y # x)

EventTypes == {"open", "close", "error", "trade", "ack", "*", "undefined"}

\* callbacks that only look at their arguments
Callbacks == {"cb1", "cb2"}

\* callbacks that use the manager while they are being called, and one that
\* throws
Subscribers == Callbacks \cup {"adder", "remover", "disconnector", "connector", "thrower"}

Sockets == 1..MaxAttempts

\* --------------------------------------------------------------- the world
World ==
    [ws |-> ws, _listeners |-> _listeners, _anyListeners |-> _anyListeners,
     _nextRequestId |-> _nextRequestId, _pendingAcks |-> _pendingAcks,
     _reconnectDelay |-> _reconnectDelay, _maxReconnectDelay |-> _maxReconnectDelay,
     _backoffFactor |-> _backoffFactor, _heartbeatTimer |-> _heartbeatTimer,
     _shouldReconnect |-> _shouldReconnect, sockets |-> sockets, newest |-> newest,
     reconnectTimers |-> reconnectTimers, intervals |-> intervals,
     ackTimers |-> ackTimers, promises |-> promises, calls |-> calls, wire |-> wire,
     sendResult |-> sendResult, baseDelay |-> baseDelay, expected |-> expected,
     suppressed |-> suppressed]

\* The world a step starts from: the observations of the previous step are gone.
Begin == [World EXCEPT !.calls = <<>>, !.wire = <<>>, !.sendResult = "none"]

Commit(w) ==
    /\ ws' = w.ws
    /\ _listeners' = w._listeners
    /\ _anyListeners' = w._anyListeners
    /\ _nextRequestId' = w._nextRequestId
    /\ _pendingAcks' = w._pendingAcks
    /\ _reconnectDelay' = w._reconnectDelay
    /\ _maxReconnectDelay' = w._maxReconnectDelay
    /\ _backoffFactor' = w._backoffFactor
    /\ _heartbeatTimer' = w._heartbeatTimer
    /\ _shouldReconnect' = w._shouldReconnect
    /\ sockets' = w.sockets
    /\ newest' = w.newest
    /\ reconnectTimers' = w.reconnectTimers
    /\ intervals' = w.intervals
    /\ ackTimers' = w.ackTimers
    /\ promises' = w.promises
    /\ calls' = w.calls
    /\ wire' = w.wire
    /\ sendResult' = w.sendResult
    /\ baseDelay' = w.baseDelay
    /\ expected' = w.expected
    /\ suppressed' = w.suppressed

\* ------------------------------------------------------------- constructor
constructor(opts) ==
    [ws |-> 0,
     _listeners |-> [e \in EventTypes |-> <<>>],
     _anyListeners |-> <<>>,
     _nextRequestId |-> 1,
     _pendingAcks |-> {},
     _reconnectDelay |-> OrDefault(opts.reconnectDelay, Num(1000)),
     _maxReconnectDelay |-> OrDefault(opts.maxReconnectDelay, Num(30000)),
     _backoffFactor |-> OrDefault(opts.backoffFactor, Frac(16, 10)),
     _heartbeatTimer |-> 0,
     _shouldReconnect |-> TRUE,
     sockets |-> [t \in Sockets |-> "NONE"],
     newest |-> 0,
     reconnectTimers |-> <<>>,
     intervals |-> 0,
     ackTimers |-> {},
     promises |-> [i \in 1..MaxReq |-> <<>>],
     calls |-> <<>>,
     wire |-> <<>>,
     sendResult |-> "none",
     baseDelay |-> OrDefault(opts.reconnectDelay, Num(1000)),
     expected |-> MathMin(OrDefault(opts.reconnectDelay, Num(1000)),
                          OrDefault(opts.maxReconnectDelay, Num(30000))),
     suppressed |-> FALSE]

\* --------------------------------------------------------------- heartbeat
_stopHeartbeat(w) ==
    IF w._heartbeatTimer # 0
    THEN [w EXCEPT !.intervals = @ - 1, !._heartbeatTimer = 0]
    ELSE w

_startHeartbeat(w) ==
    LET w1 == _stopHeartbeat(w)
    IN  [w1 EXCEPT !.intervals = @ + 1, !._heartbeatTimer = 1]

IsOpen(w) == w.ws # 0 /\ w.sockets[w.ws] = "OPEN"

Ping == [type |-> "ping", payload |-> "undefined", request_id |-> "undefined"]

\* the setInterval callback
heartbeatTick(w) ==
    IF IsOpen(w)
    THEN [w EXCEPT !.wire = Append(@, [socket |-> w.ws, frame |-> Ping])]
    ELSE w

\* ------------------------------------------------------------ subscription
\* mutant: on() keeps a list and adds the callback again
on_Appends(w, eventType, cb) ==
    IF eventType = "*"
    THEN [w EXCEPT !._anyListeners = Append(@, cb)]
    ELSE [w EXCEPT !._listeners[eventType] = Append(@, cb)]

on(w, eventType, cb) ==
    IF eventType = "*"
    THEN [w EXCEPT !._anyListeners = SetAdd(@, cb)]
    ELSE [w EXCEPT !._listeners[eventType] = SetAdd(@, cb)]

\* mutant: off() empties the set of the type
off_Clears(w, eventType, cb) ==
    IF eventType = "*"
    THEN [w EXCEPT !._anyListeners = <<>>]
    ELSE [w EXCEPT !._listeners[eventType] = <<>>]

off(w, eventType, cb) ==
    IF eventType = "*"
    THEN [w EXCEPT !._anyListeners = SetDelete(@, cb)]
    ELSE [w EXCEPT !._listeners[eventType] = SetDelete(@, cb)]

\* ------------------------------------------------------ connect, disconnect
FreeSockets(w) == {t \in Sockets : w.sockets[t] = "NONE"}

\* new WebSocket(url) and the four addEventListener calls
_connectOnce(w) ==
    LET t == CHOOSE x \in FreeSockets(w) : \A y \in FreeSockets(w) : x <= y
    IN  [w EXCEPT !.sockets[t] = "CONNECTING", !.ws = t, !.newest = t]

connect(w) ==
    IF w.ws # 0
    THEN w
    ELSE _connectOnce([w EXCEPT !._shouldReconnect = TRUE])

\* WebSocket.close(): a socket that is connecting or open starts closing
SocketClose(w, t) ==
    IF w.sockets[t] \in {"CONNECTING", "OPEN"}
    THEN [w EXCEPT !.sockets[t] = "CLOSING"]
    ELSE w

\* mutant: disconnect() also empties the pending table
disconnect_DropsPending(w) ==
    LET w1 == [w EXCEPT !._shouldReconnect = FALSE, !._pendingAcks = {}]
        w2 == IF w1.ws # 0 THEN [SocketClose(w1, w1.ws) EXCEPT !.ws = 0] ELSE w1
    IN  _stopHeartbeat(w2)

disconnect(w) ==
    LET w1 == [w EXCEPT !._shouldReconnect = FALSE]
        w2 == IF w1.ws # 0 THEN [SocketClose(w1, w1.ws) EXCEPT !.ws = 0] ELSE w1
    IN  _stopHeartbeat(w2)

\* ---------------------------------------------------------------- dispatch
\* what the body of callback cb does to the manager
Behaviour(w, cb) ==
    CASE cb = "adder" -> on(on(w, "trade", "cb2"), "*", "cb2")
      [] cb = "remover" -> off(off(w, "trade", "cb2"), "*", "cb2")
      [] cb = "disconnector" -> disconnect(w)
      [] cb = "connector" -> connect(w)
      [] OTHER -> w

Throws(cb) == cb = "thrower"

\* one callback invocation; event names the dispatch it belongs to, threw
\* tells whether the invocation ended in an exception
Call(w, cb, event, args) ==
    Behaviour([w EXCEPT !.calls = Append(@, [cb |-> cb, event |-> event, args |-> args,
                                             threw |-> Throws(cb)])],
              cb)

\* for (const cb of snapshot) { try { cb(...) } catch (e) { console.error } }:
\* a callback that throws is logged and the loop goes on
RECURSIVE InvokeAll(_, _, _, _)
InvokeAll(w, snapshot, event, args) ==
    IF snapshot = <<>>
    THEN w
    ELSE InvokeAll(Call(w, Head(snapshot), event, args), Tail(snapshot), event, args)

\* mutant: one try around each for loop, so the first throw ends the loop
_emit_TryAroundLoop(w, eventType, payload, full) ==
    LET UpToThrow(s) ==
            IF \E i \in 1..Len(s) : Throws(s[i])
            THEN SubSeq(s, 1, CHOOSE i \in 1..Len(s) :
                                  Throws(s[i]) /\ \A j \in 1..(i - 1) : ~Throws(s[j]))
            ELSE s
        w1 == InvokeAll(w, UpToThrow(w._listeners[eventType]), eventType, <<payload, full>>)
    IN  InvokeAll(w1, UpToThrow(w1._anyListeners), eventType,
                  <<Str(eventType), payload, full>>)

_emit(w, eventType, payload, full) ==
    LET w1 == InvokeAll(w, w._listeners[eventType], eventType, <<payload, full>>)
    IN  InvokeAll(w1, w1._anyListeners, eventType, <<Str(eventType), payload, full>>)

\* ------------------------------------------------------- socket listeners
\* setTimeout(() => this._connectOnce(), delay)
setTimeout(w, delay) ==
    [w EXCEPT !.reconnectTimers = Append(@, delay)]

\* the "open" listener
OnOpen(w) ==
    LET w1 == [w EXCEPT !._reconnectDelay = Num(1000)]
        w2 == _emit(w1, "open", Undefined, Undefined)
    IN  _startHeartbeat(w2)

\* mutant: the close listener schedules no new attempt
OnClose_NoReschedule(w, ev) ==
    LET w1 == _emit(w, "close", ev, Undefined)
        w2 == _stopHeartbeat(w1)
    IN  [w2 EXCEPT !.ws = 0]

\* the "close" listener
OnClose(w, ev) ==
    LET w1 == _emit(w, "close", ev, Undefined)
        w2 == _stopHeartbeat(w1)
        w3 == [w2 EXCEPT !.ws = 0]
    IN  IF w3._shouldReconnect
        THEN [setTimeout(w3, w3._reconnectDelay) EXCEPT
                 !._reconnectDelay =
                     MathMin(Times(w3._reconnectDelay, w3._backoffFactor),
                             w3._maxReconnectDelay)]
        ELSE w3

\* the "error" listener
OnError(w, err) == _emit(w, "error", err, Undefined)

\* --------------------------------------------------------- acknowledgements
\* the request number a request_id string stands for (0: none)
IdOf(rid) ==
    IF \E i \in 1..MaxReq : String(i) = rid
    THEN CHOOSE i \in 1..MaxReq : String(i) = rid
    ELSE 0

\* resolve(payload) or reject(error) called on the promise of request rid
Settle(w, rid, kind, value) ==
    [w EXCEPT !.promises[IdOf(rid)] = Append(@, [kind |-> kind, value |-> value])]

\* mutant: the resolver forgets clearTimeout(timer)
resolverResolve_NoClear(w, rid, payload) ==
    Settle(w, rid, "resolve", payload)

\* resolver.resolve: clearTimeout(timer); resolve(payload)
resolverResolve(w, rid, payload) ==
    Settle([w EXCEPT !.ackTimers = @ \ {rid}], rid, "resolve", payload)

\* mutant: the timeout rejects and leaves the table entry
ackTimeout_KeepsEntry(w, rid) ==
    Settle(w, rid, "reject", "Ack timeout")

\* the setTimeout callback of send
ackTimeout(w, rid) ==
    Settle([w EXCEPT !._pendingAcks = @ \ {rid}], rid, "reject", "Ack timeout")

\* mutant: send() tests the handle and not its readyState
send_ChecksHandleOnly(w, obj, awaitAck) ==
    IF w.ws = 0
    THEN [w EXCEPT !.sendResult = "rejected: WebSocket is not open"]
    ELSE LET request_id == String(w._nextRequestId)
             packet == [obj EXCEPT !.request_id = request_id]
             w1 == [w EXCEPT !._nextRequestId = @ + 1,
                             !.wire = Append(@, [socket |-> w.ws, frame |-> packet])]
         IN  IF ~awaitAck
             THEN [w1 EXCEPT !.sendResult = "resolved"]
             ELSE [w1 EXCEPT !.ackTimers = @ \cup {request_id},
                             !._pendingAcks = @ \cup {request_id},
                             !.sendResult = "pending"]

\* mutant: send() reads the counter and does not increment it
send_NoIncrement(w, obj, awaitAck) ==
    IF ~IsOpen(w)
    THEN [w EXCEPT !.sendResult = "rejected: WebSocket is not open"]
    ELSE LET request_id == String(w._nextRequestId)
             packet == [obj EXCEPT !.request_id = request_id]
             w1 == [w EXCEPT !.wire = Append(@, [socket |-> w.ws, frame |-> packet])]
         IN  IF ~awaitAck
             THEN [w1 EXCEPT !.sendResult = "resolved"]
             ELSE [w1 EXCEPT !.ackTimers = @ \cup {request_id},
                             !._pendingAcks = @ \cup {request_id},
                             !.sendResult = "pending"]

send(w, obj, awaitAck) ==
    IF ~IsOpen(w)
    THEN [w EXCEPT !.sendResult = "rejected: WebSocket is not open"]
    ELSE LET request_id == String(w._nextRequestId)
             packet == [obj EXCEPT !.request_id = request_id]
             w1 == [w EXCEPT !._nextRequestId = @ + 1,
                             !.wire = Append(@, [socket |-> w.ws, frame |-> packet])]
         IN  IF ~awaitAck
             THEN [w1 EXCEPT !.sendResult = "resolved"]
             ELSE [w1 EXCEPT !.ackTimers = @ \cup {request_id},
                             !._pendingAcks = @ \cup {request_id},
                             !.sendResult = "pending"]

\* JSON.parse(msg.data) followed by the destructuring of its result: text that
\* is not JSON makes JSON.parse throw, the JSON text null makes the
\* destructuring throw, an object yields its fields (absent ones undefined).
ParseThrows(msg) == msg.text \in {"garbage", "null"}

JSONparse(msg) == IF msg.text = "object" THEN msg.data ELSE NoFrame

\* mutant: a matched ack resolves and its table entry stays
OnMessage_KeepsEntry(w, msg) ==
    IF ParseThrows(msg)
    THEN _emit(w, "error", Str("SyntaxError"), Undefined)
    ELSE LET data == JSONparse(msg)
             type == data.type
             payload == data.payload
             request_id == data.request_id
         IN  IF type = "ack" /\ request_id # "undefined" /\ request_id \in w._pendingAcks
             THEN resolverResolve(w, request_id, payload)
             ELSE LET w1 == _emit(w, type, Str(payload), Obj(data))
                  IN  _emit(w1, "*", Obj(data), Undefined)

\* mutant: a matched ack resolves, loses its entry and is dispatched as well
OnMessage_NoReturn(w, msg) ==
    IF ParseThrows(msg)
    THEN _emit(w, "error", Str("SyntaxError"), Undefined)
    ELSE LET data == JSONparse(msg)
             type == data.type
             payload == data.payload
             request_id == data.request_id
             w0 == IF type = "ack" /\ request_id # "undefined"
                                   /\ request_id \in w._pendingAcks
                   THEN [resolverResolve(w, request_id, payload) EXCEPT
                            !._pendingAcks = @ \ {request_id}]
                   ELSE w
             w1 == _emit(w0, type, Str(payload), Obj(data))
         IN  _emit(w1, "*", Obj(data), Undefined)

\* the "message" listener
OnMessage(w, msg) ==
    IF ParseThrows(msg)
    THEN _emit(w, "error", Str("SyntaxError"), Undefined)
    ELSE LET data == JSONparse(msg)
             type == data.type
             payload == data.payload
             request_id == data.request_id
         IN  IF type = "ack" /\ request_id # "undefined" /\ request_id \in w._pendingAcks
             THEN [resolverResolve(w, request_id, payload) EXCEPT
                      !._pendingAcks = @ \ {request_id}]
             ELSE LET w1 == _emit(w, type, Str(payload), Obj(data))
                  IN  _emit(w1, "*", Obj(data), Undefined)

\* ------------------------------------------------------------------ inputs
CloseEvent == Str("CloseEvent")

ErrorEvent == Str("ErrorEvent")

Command == [type |-> "command", payload |-> "undefined", request_id |-> "undefined"]

\* a command that already names a request_id of its own
OwnIdCommand == [type |-> "command", payload |-> "undefined", request_id |-> "mine"]

Commands == {Command, OwnIdCommand}

Payloads == {"undefined", "p1", "p2"}

\* request_id of an inbound frame: absent, the string of a request number, or
\* the JSON number 1
RequestIds == {"undefined", "num:1"} \cup {String(i) : i \in 1..MaxReq}

\* the ids send can have allocated
AllocatedIds == {String(i) : i \in 1..MaxReq}

Frame(type, payload, rid) ==
    [text |-> "object", data |-> [type |-> type, payload |-> payload, request_id |-> rid]]

Garbage == [text |-> "garbage", data |-> NoFrame]

JsonNull == [text |-> "null", data |-> NoFrame]

AckPayloads == {"p1", "p2"}

\* acks for the ids send allocates, and acks that can match none: without a
\* request_id and with a number for it
AckFrames ==
    {Frame("ack", p, r) : p \in AckPayloads, r \in AllocatedIds}
        \cup {Frame("ack", "p1", r) : r \in RequestIds \ AllocatedIds}

TradeFrames == {Frame("trade", p, "undefined") : p \in Payloads}

\* a frame without a type field
UntypedFrames == {Frame("undefined", "p1", "undefined")}

\* ----------------------------------------------------------------- actions
\* a close turns a socket into at most one timer and a timer turns into one
\* socket, so only connect() adds an attempt
InFlight == Cardinality({t \in Sockets : sockets[t] # "NONE"}) + Len(reconnectTimers)

Connect ==
    /\ ws # 0 \/ InFlight < MaxAttempts
    /\ Commit([connect(Begin) EXCEPT !.suppressed = FALSE])

Disconnect ==
    /\ _shouldReconnect \in BOOLEAN
    /\ Commit([disconnect(Begin) EXCEPT !.suppressed = @ \/ reconnectTimers # <<>>])

\* the socket is gone once its close event has been dispatched
Gone(w, t) ==
    [w EXCEPT !.sockets[t] = "NONE",
              !.newest = IF @ = t THEN 0 ELSE @,
              !.expected = IF w._shouldReconnect
                           THEN MathMin(Times(@, w._backoffFactor), w._maxReconnectDelay)
                           ELSE @]

\* a callback that calls connect() may add an attempt of its own
Room ==
    (\/ "connector" \in Range(_anyListeners)
     \/ \E e \in EventTypes : "connector" \in Range(_listeners[e]))
        => InFlight < MaxAttempts

TransportOpen(t) ==
    /\ sockets[t] = "CONNECTING"
    /\ Room
    /\ Commit([OnOpen([Begin EXCEPT !.sockets[t] = "OPEN"]) EXCEPT
                  !.expected = MathMin(baseDelay, _maxReconnectDelay)])

\* the server starts the closing handshake
TransportClosing(t) ==
    /\ sockets[t] = "OPEN"
    /\ Commit([Begin EXCEPT !.sockets[t] = "CLOSING"])

\* the connection closes cleanly: a close event
TransportClose(t) ==
    /\ sockets[t] \in {"OPEN", "CLOSING"}
    /\ Room
    /\ Commit(Gone(OnClose([Begin EXCEPT !.sockets[t] = "CLOSED"], CloseEvent), t))

\* the connection fails: an error event, then a close event
TransportFail(t) ==
    /\ sockets[t] \in {"CONNECTING", "OPEN", "CLOSING"}
    /\ Room
    /\ Commit(Gone(OnClose(OnError([Begin EXCEPT !.sockets[t] = "CLOSED"], ErrorEvent),
                           CloseEvent), t))

RemoveAt(s, i) == SubSeq(s, 1, i - 1) \o SubSeq(s, i + 1, Len(s))

ReconnectTimer(i) ==
    /\ i \in 1..Len(reconnectTimers)
    /\ FreeSockets(World) # {}
    /\ Commit(_connectOnce([Begin EXCEPT !.reconnectTimers = RemoveAt(@, i)]))

HeartbeatTick ==
    /\ intervals > 0
    /\ Commit(heartbeatTick(Begin))

On(eventType, cb) ==
    /\ cb \in Subscribers
    /\ Commit(on(Begin, eventType, cb))

Off(eventType, cb) ==
    /\ cb \in Subscribers
    /\ Commit(off(Begin, eventType, cb))

Send(obj, awaitAck) ==
    /\ IsOpen(World) => _nextRequestId <= MaxReq
    /\ Commit(send(Begin, obj, awaitAck))

\* a frame arrives on some open socket; the listener is the same closure for
\* every socket of the manager
Message(msg) ==
    /\ \E t \in Sockets : sockets[t] = "OPEN"
    /\ Room
    /\ Commit(OnMessage(Begin, msg))

AckTimer(rid) ==
    /\ rid \in ackTimers
    /\ Commit(ackTimeout([Begin EXCEPT !.ackTimers = @ \ {rid}], rid))

Lifecycle ==
    \/ Connect
    \/ Disconnect
    \/ \E t \in Sockets : TransportOpen(t)
    \/ \E t \in Sockets : TransportClosing(t)
    \/ \E t \in Sockets : TransportClose(t)
    \/ \E t \in Sockets : TransportFail(t)
    \/ \E i \in 1..MaxAttempts : ReconnectTimer(i)
    \/ HeartbeatTick

Requests ==
    \/ \E obj \in Commands, awaitAck \in BOOLEAN : Send(obj, awaitAck)
    \/ \E rid \in RequestIds : AckTimer(rid)

\* ----------------------------------------------------------- specifications
\* the state after new WsClient(url, opts)
Constructed(opts) ==
    LET w == constructor(opts)
    IN  /\ ws = w.ws
        /\ _listeners = w._listeners
        /\ _anyListeners = w._anyListeners
        /\ _nextRequestId = w._nextRequestId
        /\ _pendingAcks = w._pendingAcks
        /\ _reconnectDelay = w._reconnectDelay
        /\ _maxReconnectDelay = w._maxReconnectDelay
        /\ _backoffFactor = w._backoffFactor
        /\ _heartbeatTimer = w._heartbeatTimer
        /\ _shouldReconnect = w._shouldReconnect
        /\ sockets = w.sockets
        /\ newest = w.newest
        /\ reconnectTimers = w.reconnectTimers
        /\ intervals = w.intervals
        /\ ackTimers = w.ackTimers
        /\ promises = w.promises
        /\ calls = w.calls
        /\ wire = w.wire
        /\ sendResult = w.sendResult
        /\ baseDelay = w.baseDelay
        /\ expected = w.expected
        /\ suppressed = w.suppressed

Options(reconnectDelay, maxReconnectDelay, backoffFactor) ==
    [reconnectDelay |-> reconnectDelay, maxReconnectDelay |-> maxReconnectDelay,
     backoffFactor |-> backoffFactor]

\* the options of the worked example: base 1000, factor 2, cap 5000
ExampleOptions == Options(Num(1000), Num(5000), Num(2))

\* the defaults with a backoff that does not grow
SteadyOptions == Options(Num(0), Num(0), Num(1))

\* no options at all, a base delay other than 1000, and the example
OptionSets ==
    {Options(Num(0), Num(0), Num(0)),
     Options(Num(2000), Num(5000), Num(2)),
     ExampleOptions}

\* Requests and acknowledgements under every interleaving with the connection
\* lifecycle; one callback subscribes to "ack" frames and to the wildcard.
Init == Constructed(SteadyOptions)

Next ==
    \/ Lifecycle
    \/ Requests
    \/ \E e \in {"ack", "*"} : On(e, "cb1")
    \/ \E e \in {"ack", "*"} : Off(e, "cb1")
    \/ \E msg \in AckFrames \cup {Frame("trade", "p1", "undefined")} : Message(msg)

Spec == Init /\ [][Next]_vars

\* The reconnect cycle and its backoff under the option sets.
InitBackoff == \E opts \in OptionSets : Constructed(opts)

NextBackoff ==
    \/ Lifecycle
    \/ On("*", "cb1")
    \/ Off("*", "cb1")

SpecBackoff == InitBackoff /\ [][NextBackoff]_vars

\* Messages of every kind against every registration of two callbacks.
NextDispatch ==
    \/ Lifecycle
    \/ \E e \in {"trade", "*"}, cb \in Callbacks : On(e, cb)
    \/ \E e \in {"trade", "*"}, cb \in Callbacks : Off(e, cb)
    \/ \E msg \in TradeFrames \cup UntypedFrames \cup {Garbage, JsonNull,
                                                           Frame("ack", "p1", "1")} :
           Message(msg)

SpecDispatch == Init /\ [][NextDispatch]_vars

\* Callbacks that subscribe and unsubscribe cb2 while a trade frame is being
\* dispatched to them.
TradeFrame == Frame("trade", "p1", "undefined")

SnapshotCallbacks == {"adder", "remover", "cb2"}

NextSnapshot ==
    \/ Lifecycle
    \/ \E cb \in SnapshotCallbacks : On("trade", cb)
    \/ \E cb \in SnapshotCallbacks : Off("trade", cb)
    \/ On("*", "cb2")
    \/ Off("*", "cb2")
    \/ Message(TradeFrame)

SpecSnapshot == Init /\ [][NextSnapshot]_vars

\* Callbacks that call disconnect() and connect() while an open or a close
\* event is being dispatched to them.
NextReentrant ==
    \/ Lifecycle
    \/ \E e \in {"open", "close"}, cb \in {"disconnector", "connector"} : On(e, cb)
    \/ \E e \in {"open", "close"}, cb \in {"disconnector", "connector"} : Off(e, cb)

SpecReentrant == Init /\ [][NextReentrant]_vars

\* A callback that throws, next to one that returns.
NextThrow ==
    \/ Lifecycle
    \/ \E e \in {"trade", "*"}, cb \in {"thrower", "cb1"} : On(e, cb)
    \/ \E e \in {"trade", "*"}, cb \in {"thrower", "cb1"} : Off(e, cb)
    \/ \E msg \in {TradeFrame, Garbage} : Message(msg)

SpecThrow == Init /\ [][NextThrow]_vars

\* setTimeout fires: an armed acknowledgement timer does not stay armed forever
SpecFair == Spec /\ \A rid \in AllocatedIds : WF_vars(AckTimer(rid))

\* ------------------------------------------------------------------ claims
LiveSockets == {t \in Sockets : sockets[t] \in {"CONNECTING", "OPEN"}}

LifecycleEvents == {"open", "close", "error"}

\* C1: the manager owns at most one transport at a time: never two sockets
\* that are both connecting or open, and the handle is null or the socket
\* created last.
C1_SingleTransport ==
    /\ Cardinality(LiveSockets) <= 1
    /\ ws \in {0, newest}

\* C2: once disconnect() has been called while a reconnect was scheduled, and
\* until connect() is called, no open, close or error event is delivered, the
\* handle stays null and no heartbeat runs.
C2_ScheduledAttemptIsNoOp ==
    suppressed =>
        /\ ws = 0
        /\ _heartbeatTimer = 0
        /\ intervals = 0
        /\ \A i \in 1..Len(calls) : calls[i].event \notin LifecycleEvents

\* C3: the k-th consecutive close with reconnect intent and no open in between
\* schedules its attempt after min(reconnectDelay * backoffFactor^(k-1),
\* maxReconnectDelay) and leaves min(delay * backoffFactor, maxReconnectDelay)
\* stored.  expected holds that delay: min(reconnectDelay, maxReconnectDelay)
\* after construction and after every open, min(expected * backoffFactor,
\* maxReconnectDelay) after every such close, which is the closed form for a
\* factor of at least 1.
C3_BackoffSchedule ==
    [][Len(reconnectTimers') > Len(reconnectTimers) =>
          /\ reconnectTimers'[Len(reconnectTimers')] = expected
          /\ _reconnectDelay' =
                 MathMin(Times(expected, _backoffFactor), _maxReconnectDelay)]_vars

\* C4: every open leaves the stored delay at the configured reconnectDelay, so
\* the stored delay always lies between reconnectDelay and maxReconnectDelay
\* when reconnectDelay <= maxReconnectDelay.
C4_OpenResetsToBase ==
    [][/\ (\E t \in Sockets : TransportOpen(t)) => _reconnectDelay' = baseDelay
       /\ Leq(baseDelay, _maxReconnectDelay) =>
              /\ Leq(baseDelay, _reconnectDelay')
              /\ Leq(_reconnectDelay', _maxReconnectDelay)]_vars

Resolve(p) == [kind |-> "resolve", value |-> p]

Reject == [kind |-> "reject", value |-> "Ack timeout"]

TimedOut(rid) == promises[IdOf(rid)] = <<Reject>>

\* C5: a matching ack that arrives while the timer of its send is armed
\* resolves the send with the ack's payload, removes the table entry and
\* cancels the timer; a resolved send is never failed afterwards.
C5_AckResolves ==
    [][/\ \A p \in AckPayloads, rid \in AllocatedIds :
              (rid \in _pendingAcks /\ rid \in ackTimers /\ Message(Frame("ack", p, rid)))
                  => /\ promises'[IdOf(rid)] = <<Resolve(p)>>
                     /\ rid \notin _pendingAcks'
                     /\ rid \notin ackTimers'
       /\ \A rid \in AllocatedIds :
              (promises[IdOf(rid)] # <<>> /\ promises[IdOf(rid)][1].kind = "resolve")
                  => /\ promises'[IdOf(rid)] = promises[IdOf(rid)]
                     /\ rid \notin ackTimers']_vars

C5_Witness ==
    \E rid \in AllocatedIds :
        /\ promises[IdOf(rid)] = <<Resolve("p2")>>
        /\ rid \notin _pendingAcks
        /\ rid \notin ackTimers

\* the callback invocations that dispatch frame data to callback cb
TypedCall(cb, data) ==
    [cb |-> cb, event |-> data.type, args |-> <<Str(data.payload), Obj(data)>>,
     threw |-> Throws(cb)]

WildcardCall(cb, data) ==
    [cb |-> cb, event |-> data.type,
     args |-> <<Str(data.type), Str(data.payload), Obj(data)>>, threw |-> Throws(cb)]

Count(seq, x) == Cardinality({i \in 1..Len(seq) : seq[i] = x})

\* the timeout of a send fails it with "Ack timeout" and removes its entry
TimeoutFails ==
    \A rid \in AllocatedIds :
        AckTimer(rid) => /\ promises'[IdOf(rid)] = <<Reject>>
                         /\ rid \notin _pendingAcks'

\* C6 as claimed: a send without ack in time fails with a timeout error and
\* loses its entry; an ack with the same request_id that arrives later
\* settles nothing, emits no error and reaches no subscriber at all.
C6_LateAckDropped ==
    [][/\ TimeoutFails
       /\ \A p \in AckPayloads, rid \in AllocatedIds :
              (TimedOut(rid) /\ Message(Frame("ack", p, rid)))
                  => /\ promises' = promises
                     /\ _pendingAcks' = _pendingAcks
                     /\ calls' = <<>>]_vars

\* C6 amended: a send without ack in time fails with a timeout error and
\* loses its entry; an ack with the same request_id that arrives later
\* settles nothing and emits no error event, and it is dispatched as any
\* other frame: to the callbacks registered for "ack" and to the wildcard
\* callbacks.
C6_LateAckDispatched ==
    [][/\ TimeoutFails
       /\ \A p \in AckPayloads, rid \in AllocatedIds :
              (TimedOut(rid) /\ Message(Frame("ack", p, rid)))
                  => LET data == Frame("ack", p, rid).data
                     IN  /\ promises' = promises
                         /\ _pendingAcks' = _pendingAcks
                         /\ ackTimers' = ackTimers
                         /\ \A i \in 1..Len(calls') : calls'[i].event # "error"
                         /\ \A cb \in Range(_listeners["ack"]) :
                                Count(calls', TypedCall(cb, data)) >= 1
                         /\ \A cb \in Range(_anyListeners) :
                                Count(calls', WildcardCall(cb, data)) >= 1]_vars

C6_Witness ==
    \E rid \in AllocatedIds, p \in AckPayloads :
        /\ TimedOut(rid)
        /\ Count(calls, TypedCall("cb1", Frame("ack", p, rid).data)) >= 1
        /\ Count(calls, WildcardCall("cb1", Frame("ack", p, rid).data)) >= 1

\* C7: no send is settled twice (resolved by an ack and failed by its timeout,
\* or either of them twice), and a request id has a table entry exactly while
\* its timer is armed, which is while its send is unsettled.
C7_OneOutcome ==
    /\ \A i \in 1..MaxReq : Len(promises[i]) <= 1
    /\ _pendingAcks = ackTimers
    /\ \A rid \in _pendingAcks : promises[IdOf(rid)] = <<>>

C7_Witness ==
    \E a \in AllocatedIds, b \in AllocatedIds :
        /\ promises[IdOf(a)] = <<Resolve("p1")>>
        /\ TimedOut(b)
        /\ ws = 0

\* C8: disconnect() leaves the pending table, its timers and the promises as
\* they are, and every pending send is settled in the end: its entry goes
\* away with exactly one outcome, by its own timer if no ack comes first.
C8_PendingSurvivesDisconnect ==
    /\ [][/\ Disconnect => UNCHANGED <<_pendingAcks, ackTimers, promises>>
          /\ TimeoutFails]_vars
    /\ \A rid \in AllocatedIds :
           (rid \in _pendingAcks) ~>
               (rid \notin _pendingAcks /\ Len(promises[IdOf(rid)]) = 1)

C8_Witness ==
    /\ ~_shouldReconnect
    /\ ws = 0
    /\ LiveSockets = {}
    /\ \E rid \in AllocatedIds : TimedOut(rid)
    /\ \E rid \in AllocatedIds : rid \in _pendingAcks

ManagerState ==
    <<ws, _listeners, _anyListeners, _nextRequestId, _pendingAcks, _reconnectDelay,
      _maxReconnectDelay, _backoffFactor, _heartbeatTimer, _shouldReconnect,
      sockets, reconnectTimers, intervals, ackTimers, promises>>

\* C9: send() without an open transport (no handle, or a handle that is not
\* open) is rejected at once and changes nothing: nothing is transmitted, no
\* id is allocated, no entry or timer is created.
C9_SendNotOpen ==
    [][\A obj \in Commands, awaitAck \in BOOLEAN :
           (~IsOpen(World) /\ Send(obj, awaitAck))
               => /\ sendResult' = "rejected: WebSocket is not open"
                  /\ wire' = <<>>
                  /\ UNCHANGED ManagerState]_vars

C9_Witness ==
    /\ sendResult = "rejected: WebSocket is not open"
    /\ ws # 0
    /\ sockets[ws] = "CLOSING"
    /\ _nextRequestId > 1

\* C10: a frame that is not consumed as an ack invokes every callback
\* registered for its type exactly once with (payload, frame) and every
\* wildcard callback exactly once with (type, payload, frame), and nothing
\* else.
C10_DispatchOnce ==
    [][\A msg \in TradeFrames \cup {Frame("ack", "p1", "1")} :
           Message(msg)
               => LET data == msg.data
                  IN  /\ \A cb \in Callbacks :
                             /\ Count(calls', TypedCall(cb, data)) =
                                    (IF cb \in Range(_listeners[data.type]) THEN 1 ELSE 0)
                             /\ Count(calls', WildcardCall(cb, data)) =
                                    (IF cb \in Range(_anyListeners) THEN 1 ELSE 0)
                      /\ Len(calls') = Len(_listeners[data.type]) + Len(_anyListeners)]_vars

\* C11: an ack whose request_id has a live table entry is consumed: the entry
\* is resolved with the frame's payload and removed, and no callback is
\* invoked for the frame, neither one registered for "ack" nor a wildcard one.
C11_AckConsumed ==
    [][\A p \in AckPayloads, rid \in AllocatedIds :
           (rid \in _pendingAcks /\ Message(Frame("ack", p, rid)))
               => /\ promises'[IdOf(rid)] = Append(promises[IdOf(rid)], Resolve(p))
                  /\ _pendingAcks' = _pendingAcks \ {rid}
                  /\ calls' = <<>>]_vars

C11_Witness ==
    /\ promises[1] = <<Resolve("p1")>>
    /\ "1" \notin _pendingAcks
    /\ "2" \in _pendingAcks
    /\ "cb1" \in Range(_listeners["ack"])
    /\ "cb1" \in Range(_anyListeners)
    /\ IsOpen(World)
    /\ calls = <<>>

\* C12: a frame that is not JSON, or that is JSON without a type field, causes
\* a local error event and nothing else: every callback invocation of the step
\* belongs to the error event, every callback that listens to errors gets it,
\* and handle, sockets, reconnect timers and pending table stay as they were.
C12_MalformedFrame ==
    [][\A msg \in UntypedFrames \cup {Garbage, JsonNull} :
           Message(msg)
               => /\ \A i \in 1..Len(calls') : calls'[i].event = "error"
                  /\ \A cb \in Range(_listeners["error"]) \cup Range(_anyListeners) :
                         \E i \in 1..Len(calls') : calls'[i].cb = cb
                  /\ UNCHANGED ManagerState]_vars

\* the callbacks registered for a type, "*" naming the wildcard set
Registered(e) == IF e = "*" THEN _anyListeners ELSE _listeners[e]

RegisteredAfter(e) == IF e = "*" THEN _anyListeners' ELSE _listeners'[e]

\* no callback registered for the type of the frame changes the registry
\* while the frame is dispatched
QuietDispatch(data) ==
    Range(_listeners[data.type]) \cap {"adder", "remover"} = {}

\* C13: off(type, cb) removes cb from the set of that type and nothing else:
\* the other callbacks of the type keep their places, the sets of all other
\* types (the wildcard set is one of them) are untouched, off of a callback
\* that is not registered changes nothing; and a dispatched frame invokes
\* exactly the callbacks that are registered for its type and as wildcards.
C13_OffRemovesExactly ==
    [][/\ \A e \in {"trade", "*"}, cb \in SnapshotCallbacks :
              Off(e, cb)
                  => /\ cb \notin Range(RegisteredAfter(e))
                     /\ RegisteredAfter(e) = SelectSeq(Registered(e), LAMBDA x : x # cb)
                     /\ \A e2 \in EventTypes \ {e} : RegisteredAfter(e2) = Registered(e2)
                     /\ cb \notin Range(Registered(e))
                            => UNCHANGED <<_listeners, _anyListeners>>
                     /\ UNCHANGED <<ws, sockets, _pendingAcks, _heartbeatTimer>>
       /\ (Message(TradeFrame) /\ QuietDispatch(TradeFrame.data))
              => \A cb \in Subscribers :
                     /\ Count(calls', TypedCall(cb, TradeFrame.data)) >= 1
                            <=> cb \in Range(_listeners["trade"])
                     /\ Count(calls', WildcardCall(cb, TradeFrame.data)) >= 1
                            <=> cb \in Range(_anyListeners)]_vars

\* remover has run off("trade", cb2) and off("*", cb2) from inside a dispatch
\* in which cb2 was registered: cb2 is gone from both sets and remover stays
C13_Witness ==
    /\ \E i \in 1..Len(calls) : calls[i].cb = "remover"
    /\ Count(calls, TypedCall("cb2", TradeFrame.data)) = 1
    /\ _listeners["trade"] = <<"adder", "remover">>
    /\ _anyListeners = <<>>

C16_DispatchSnapshot ==
    [][Message(TradeFrame)
           => \A cb \in Subscribers :
                  /\ Count(calls', TypedCall(cb, TradeFrame.data)) >= 1
                         <=> cb \in Range(_listeners["trade"])
                  /\ Count(calls', WildcardCall(cb, TradeFrame.data)) >= 1
                         <=> cb \in Range(_anyListeners)]_vars

\* C15: connect() with a handle creates no transport, emits nothing and
\* changes nothing; disconnect() with no handle and reconnect intent already
\* false (a second disconnect()) changes nothing.
C15_Idempotent ==
    [][/\ (ws # 0 /\ Connect) => (UNCHANGED ManagerState /\ calls' = <<>>)
       /\ (ws = 0 /\ ~_shouldReconnect /\ Disconnect) => UNCHANGED ManagerState]_vars

\* C17: at most one heartbeat interval is armed; one is armed only while the
\* handle refers to a transport that has opened and not yet delivered its
\* close, so never while the handle is null; and a ping goes out only on an
\* open transport.
C17_HeartbeatOnlyWhileOpen ==
    /\ intervals <= 1
    /\ ws = 0 => (intervals = 0 /\ _heartbeatTimer = 0)
    /\ intervals > 0 => (ws # 0 /\ sockets[ws] \in {"OPEN", "CLOSING"})
    /\ \A i \in 1..Len(wire) :
           wire[i].frame = Ping => sockets[wire[i].socket] = "OPEN"

\* setTimeout fires: the oldest pending reconnect timer does not stay pending
\* forever
InitCycle == Constructed(ExampleOptions)

SpecCycle == InitCycle /\ [][NextBackoff]_vars /\ WF_vars(ReconnectTimer(1))

\* nothing left that could produce an event: no handle, no socket, no
\* scheduled attempt, no heartbeat
Idle ==
    /\ ws = 0
    /\ \A t \in Sockets : sockets[t] = "NONE"
    /\ reconnectTimers = <<>>
    /\ intervals = 0

CloseProcessed == \E t \in Sockets : TransportClose(t) \/ TransportFail(t)

\* C18: a close event processed with reconnect intent schedules exactly one
\* attempt and one processed without it schedules none; a scheduled attempt
\* that fires creates one connecting transport and makes it the handle; the
\* manager becomes idle only with reconnect intent false, which only
\* disconnect() sets; and while an attempt is scheduled and the handle is
\* null, a handle follows.
C18_CycleContinues ==
    /\ [][/\ (CloseProcessed /\ _shouldReconnect)
                 => /\ Len(reconnectTimers') = Len(reconnectTimers) + 1
                    /\ _shouldReconnect'
          /\ (CloseProcessed /\ ~_shouldReconnect)
                 => reconnectTimers' = reconnectTimers
          /\ (\E i \in 1..MaxAttempts : ReconnectTimer(i))
                 => /\ Len(reconnectTimers') = Len(reconnectTimers) - 1
                    /\ ws' # 0
                    /\ sockets[ws'] = "NONE"
                    /\ sockets'[ws'] = "CONNECTING"
          /\ (~Idle /\ Idle') => ~_shouldReconnect'
          /\ (~_shouldReconnect' /\ _shouldReconnect) => Disconnect]_vars
    /\ (ws = 0 /\ reconnectTimers # <<>>) ~> (ws # 0)

\* a close with reconnect intent has been processed since the last open (the
\* backoff has grown), its attempt has fired and is the connecting handle
C18_Witness ==
    /\ _shouldReconnect
    /\ expected # MathMin(baseDelay, _maxReconnectDelay)
    /\ reconnectTimers = <<>>
    /\ ws # 0
    /\ sockets[ws] = "CONNECTING"
    /\ LiveSockets = {ws}

\* C19: the counter never decreases; every successful send, with or without
\* awaitAck and whatever request_id the command brought, transmits the
\* counter's value as request_id and increments the counter, so the id is
\* greater than every id sent before; an id enters the pending table only
\* when it is not in it and has never been settled; every id in the table or
\* with an outcome is below the counter.
C19_IdsIncrease ==
    /\ [](\A rid \in _pendingAcks \cup ackTimers : IdOf(rid) \in 1..(_nextRequestId - 1))
    /\ [](\A i \in 1..MaxReq : promises[i] # <<>> => i < _nextRequestId)
    /\ [][/\ _nextRequestId' >= _nextRequestId
          /\ \A obj \in Commands, awaitAck \in BOOLEAN :
                 (IsOpen(World) /\ Send(obj, awaitAck))
                     => /\ wire' = <<[socket |-> ws,
                                      frame |-> [obj EXCEPT
                                                    !.request_id = String(_nextRequestId)]]>>
                        /\ _nextRequestId' = _nextRequestId + 1
                        /\ String(_nextRequestId) \notin _pendingAcks
                        /\ promises[_nextRequestId] = <<>>
                        /\ _pendingAcks' = IF awaitAck
                                           THEN _pendingAcks \cup {String(_nextRequestId)}
                                           ELSE _pendingAcks
          /\ \A i \in 1..Len(wire') :
                 wire'[i].frame.type = "command"
                     => /\ IdOf(wire'[i].frame.request_id) = _nextRequestId
                        /\ _nextRequestId' > _nextRequestId]_vars

\* the second id goes out on the manager's second transport, after a
\* disconnect() and a connect(), while the first id is still pending
C19_Witness ==
    /\ _nextRequestId = 3
    /\ Len(wire) = 1
    /\ wire[1].socket = 2
    /\ wire[1].frame.request_id = "2"
    /\ "1" \in _pendingAcks
    /\ sendResult = "resolved"

\* the invocations of callback cb in the last step
CallsOf(cb) == Cardinality({i \in 1..Len(calls) : calls[i].cb = cb})

\* C20: with a throwing callback among the registered ones, a dispatch still
\* invokes every callback of the type and every wildcard callback, emits no
\* error event for the throw, and leaves the manager as a dispatch to
\* returning callbacks does: a frame changes nothing, an open starts the
\* heartbeat and keeps the handle, a close clears handle and heartbeat and
\* schedules the reconnect.
C20_ThrowIsolated ==
    [][/\ Message(TradeFrame)
              => /\ \A cb \in Subscribers :
                        /\ Count(calls', TypedCall(cb, TradeFrame.data)) =
                               (IF cb \in Range(_listeners["trade"]) THEN 1 ELSE 0)
                        /\ Count(calls', WildcardCall(cb, TradeFrame.data)) =
                               (IF cb \in Range(_anyListeners) THEN 1 ELSE 0)
                 /\ \A i \in 1..Len(calls') : calls'[i].event # "error"
                 /\ UNCHANGED ManagerState
       /\ Message(Garbage)
              => /\ \A cb \in Subscribers :
                        CallsOf(cb)' = (IF cb \in Range(_anyListeners) THEN 1 ELSE 0)
                 /\ UNCHANGED ManagerState
       /\ (\E t \in Sockets : TransportOpen(t))
              => /\ \A cb \in Subscribers :
                        CallsOf(cb)' = (IF cb \in Range(_anyListeners) THEN 1 ELSE 0)
                 /\ \A i \in 1..Len(calls') : calls'[i].event = "open"
                 /\ ws' = ws
                 /\ _heartbeatTimer' = 1
                 /\ intervals' = 1
       /\ CloseProcessed
              => /\ \A cb \in Subscribers :
                        CallsOf(cb)' >= (IF cb \in Range(_anyListeners) THEN 1 ELSE 0)
                 /\ ws' = 0
                 /\ _heartbeatTimer' = 0
                 /\ Len(reconnectTimers') =
                        Len(reconnectTimers) + (IF _shouldReconnect THEN 1 ELSE 0)]_vars

\* thrower was invoked first and threw; cb1 was invoked after it in both
\* loops, and no error event was emitted
C20_Witness ==
    /\ Len(calls) >= 4
    /\ calls[1].threw
    /\ calls[1] = TypedCall("thrower", TradeFrame.data)
    /\ calls[2] = TypedCall("cb1", TradeFrame.data)
    /\ calls[3] = WildcardCall("thrower", TradeFrame.data)
    /\ calls[4] = WildcardCall("cb1", TradeFrame.data)
    /\ \A i \in 1..Len(calls) : calls[i].event # "error"
    /\ IsOpen(World)
    /\ _heartbeatTimer = 1

====
